---- MODULE Spec2Model ----
(***************************************************************************)
(* Model of packages/grpc-native-core/ext/channel_credentials.cc:          *)
(* the ChannelCredentials wrapper object (createInsecure, createSsl,       *)
(* compose, destructor) and the peer-verification callback bridge,         *)
(* together with the part of the native security library and of the        *)
(* channel machinery that the wrapper's lifetime contract depends on.      *)
(***************************************************************************)
EXTENDS Integers, FiniteSets, Sequences, TLC

\* ---------------------------------------------------------------- bounds
MaxHandles   == 3      \* ChannelCredentials objects ever constructed
MaxNatives   == 3      \* native grpc_channel_credentials ever built
MaxRegs      == 1      \* Nan::Callback registrations ever allocated
MaxChannels  == 1      \* channels ever opened on a credential

NULL == 0

Handles   == 1..MaxHandles
Natives   == 1..MaxNatives
Regs      == 1..MaxRegs

\* ------------------------------------------------------- JS value shapes
\* what info[0..2] of createSsl can be: null/undefined, a Buffer, anything else
ArgKinds == {"Absent", "Buffer", "Other"}
\* what info[3] of createSsl can be
OptKinds == {"Undefined", "NotObject", "NoCheck", "CheckNotFunction",
             "CheckFunction"}
\* what the user's checkServerIdentity can do
Outcomes == {"Undefined", "Boolean", "String", "Object", "NativeError",
             "Throw"}
\* what info[0] of compose can be
CallArgKinds == {"CallCredentials", "Other"}
\* const char* servername / cert handed in by the TLS layer
CStrings == {"NULL", "text"}

\* every createSsl call: each of the four arguments of every shape
AllSslCalls == ArgKinds \X ArgKinds \X ArgKinds \X OptKinds
\* the createSsl calls made next to the other operations: without and with
\* a verify function, and one that fails
SslCalls == {<<"Buffer", "Absent", "Absent", "Undefined">>,
             <<"Buffer", "Buffer", "Buffer", "CheckFunction">>,
             <<"Buffer", "Buffer", "Absent", "CheckFunction">>}
\* the compose calls made: on every object with a CallCredentials argument,
\* and one for each wrongly typed receiver or argument
ComposeCalls == (({NULL} \cup Handles) \X {"CallCredentials"})
                \cup {<<1, "Other">>}

\* --------------------------------------------------------- error messages
ErrNone      == "none"
ErrFirstArg  == "createSsl's first argument must be a Buffer"
ErrSecondArg == "createSSl's second argument must be a Buffer if provided"
ErrThirdArg  == "createSSl's third argument must be a Buffer if provided"
ErrPair      == "createSsl's second and third arguments must be provided or omitted together"
ErrFourthArg == "createSsl's fourth argument must be an object"
ErrCheckFn   == "Value of checkServerIdentity must be a function."
ErrThis      == "compose can only be called on ChannelCredentials objects"
ErrCallArg   == "compose's first argument must be a CallCredentials object"
ErrInsecure  == "Cannot compose insecure credential"
ErrNew       == "ChannelCredentials can only be created with the provided functions"

VARIABLES
  hstate,      \* handle -> "unused" | "live" | "released"
  wrapped,     \* handle -> wrapped_credentials (NULL or a native id)
  hreleases,   \* handle -> calls of grpc_channel_credentials_release by its destructor
  releaseArgs, \* argument (NULL or native id) -> calls of the release routine with it
  nkind,       \* native -> "free" | "ssl" | "composite"
  nref,        \* native -> reference count (0: not built yet, or destroyed)
  ninner,      \* composite native -> the channel credential it holds
  nreg,        \* ssl native -> verify_peer_callback_userdata installed (NULL if none)
  rstate,      \* registration -> "free" | "allocated" | "released"
  rreleases,   \* registration -> runs of verify_peer_callback_destruct on it
  rnative,     \* registration -> native credential it was installed on (NULL if none)
  chan,        \* native -> open channels using it
  opened,      \* channels opened so far
  inflight,    \* the verification call being executed, or NoCall
  last         \* the call just made from script or into the bridge, its inputs,
               \* its result and the native calls it made; NoOp after an event
               \* that is no such call

vars == <<hstate, wrapped, hreleases, releaseArgs, nkind, nref, ninner, nreg,
          rstate, rreleases, rnative, chan, opened, inflight, last>>

handleVars == <<hstate, wrapped, hreleases, releaseArgs>>
nativeVars == <<nkind, nref, ninner, nreg, chan, opened>>
regVars    == <<rstate, rreleases, rnative>>

NoCall == [n |-> NULL, reg |-> NULL, servername |-> "NULL", cert |-> "NULL"]

NoOp == [op |-> "none",
         root |-> "Absent", key |-> "Absent", chain |-> "Absent",
         opts |-> "Undefined",
         self |-> NULL, callArg |-> "Other",
         nativeOk |-> TRUE,
         res |-> "none", err |-> ErrNone, handle |-> NULL,
         builderCalls |-> 0, pairPassed |-> FALSE, regPassed |-> NULL,
         regCreated |-> NULL,
         compositeCalls |-> 0, compositeChan |-> NULL,
         servername |-> "NULL", cert |-> "NULL",
         outcome |-> "Undefined", signal |-> 0, propagated |-> FALSE]

Init ==
  /\ hstate      = [h \in Handles |-> "unused"]
  /\ wrapped     = [h \in Handles |-> NULL]
  /\ hreleases   = [h \in Handles |-> 0]
  /\ releaseArgs = [x \in {NULL} \cup Natives |-> 0]
  /\ nkind       = [n \in Natives |-> "free"]
  /\ nref        = [n \in Natives |-> 0]
  /\ ninner      = [n \in Natives |-> NULL]
  /\ nreg        = [n \in Natives |-> NULL]
  /\ rstate      = [r \in Regs |-> "free"]
  /\ rreleases   = [r \in Regs |-> 0]
  /\ rnative     = [r \in Regs |-> NULL]
  /\ chan        = [n \in Natives |-> 0]
  /\ opened      = 0
  /\ inflight    = NoCall
  /\ last        = NoOp

\* ------------------------------------------------------------- allocation
FreshHandle == CHOOSE h \in Handles : hstate[h] = "unused" /\
                  \A g \in Handles : hstate[g] = "unused" => h <= g
FreshNative == CHOOSE n \in Natives : nkind[n] = "free" /\
                  \A m \in Natives : nkind[m] = "free" => n <= m
FreshReg    == CHOOSE r \in Regs : rstate[r] = "free" /\
                  \A s \in Regs : rstate[s] = "free" => r <= s
HasFreeHandle == \E h \in Handles : hstate[h] = "unused"
HasFreeNative == \E n \in Natives : nkind[n] = "free"
HasFreeReg    == \E r \in Regs : rstate[r] = "free"

\* ===================================================== native library side
\* The credential objects of the security library are reference counted:
\* a composite holds a reference on the channel credential it was built
\* from, a channel holds one on the credential it uses, and the object is
\* destroyed (running the destruct hook of its verify options) when the
\* last reference goes.

\* the natives destroyed when one reference on n is dropped
RECURSIVE Destroyed(_)
Destroyed(n) ==
  IF n = NULL \/ nref[n] # 1 THEN {}
  ELSE {n} \cup (IF nkind[n] = "composite" THEN Destroyed(ninner[n]) ELSE {})

\* the natives whose count drops when one reference on n is dropped
Decremented(n) ==
  IF n = NULL THEN {}
  ELSE {n} \cup {ninner[d] : d \in {e \in Destroyed(n) : nkind[e] = "composite"}}

\* the registrations whose destruct hook runs when one reference on n is dropped
HooksRun(n) == {nreg[d] : d \in Destroyed(n)} \ {NULL}

\* the ssl credential at the bottom of a chain of composites
RECURSIVE RootOf(_)
RootOf(n) == IF nkind[n] = "composite" THEN RootOf(ninner[n]) ELSE n

\* static void verify_peer_callback_destruct(void *userdata): delete callback
\* (variant: the callback is not deleted)
verify_peer_callback_destruct_leak(st) == st
verify_peer_callback_destruct(st) == "released"

\* drop one reference on n (Unref); n = NULL drops nothing
Unref(n) ==
  /\ nref' = [m \in Natives |-> IF m \in Decremented(n) THEN nref[m] - 1
                                ELSE nref[m]]
  /\ rstate' = [r \in Regs |-> IF r \in HooksRun(n)
                               THEN verify_peer_callback_destruct(rstate[r])
                               ELSE rstate[r]]
  /\ rreleases' = [r \in Regs |-> IF r \in HooksRun(n) THEN rreleases[r] + 1
                                  ELSE rreleases[r]]

\* ========================================================= wrapper object
\* ChannelCredentials::~ChannelCredentials: the argument of the release call
\* (variant: the wrapped reference is not handed over)
DestructorReleaseArgNone(h) == NULL
DestructorReleaseArg(h) == wrapped[h]

\* ChannelCredentials::WrapStruct + ChannelCredentials::New: a new object
\* whose wrapped_credentials is creds
WrapStruct(creds) ==
  /\ hstate'  = [hstate  EXCEPT ![FreshHandle] = "live"]
  /\ wrapped' = [wrapped EXCEPT ![FreshHandle] = creds]

\* ------------------------------------------------------------- createSsl
\* private_key.isAssigned() != cert_chain.isAssigned()
\* (variant: only a key without a chain is caught)
PairMismatchKeyOnly(key, chain) == key = "Buffer" /\ chain # "Buffer"
PairMismatch(key, chain) == (key = "Buffer") # (chain = "Buffer")

\* the argument checks of CreateSsl, in the order of the code
CreateSslError(root, key, chain, opts) ==
  IF root = "Other" THEN ErrFirstArg
  ELSE IF key = "Other" THEN ErrSecondArg
  ELSE IF chain = "Other" THEN ErrThirdArg
  ELSE IF PairMismatch(key, chain) THEN ErrPair
  ELSE IF opts = "NotObject" THEN ErrFourthArg
  ELSE IF opts = "CheckNotFunction" THEN ErrCheckFn
  ELSE ErrNone

\* ThrowError for the pair check, ThrowTypeError for the others
ErrorClass(e) == IF e = ErrPair THEN "Error" ELSE "TypeError"

\* new Callback(...) happens exactly when checkServerIdentity is a function
AllocatesCallback(opts) == opts = "CheckFunction"

\* private_key.isAssigned() ? &key_cert_pair : NULL
\* (variant: &key_cert_pair passed unconditionally)
PassesKeyCertPairAlways(key) == TRUE
PassesKeyCertPair(key) == key = "Buffer"

\* creds == NULL after grpc_ssl_credentials_create
\* (variant: the NULL test is missing)
SslCredsIsNullNever(nativeOk) == FALSE
SslCredsIsNull(nativeOk) == ~nativeOk

CreateSsl(root, key, chain, opts, nativeOk) ==
  LET e == CreateSslError(root, key, chain, opts)
      r == IF AllocatesCallback(opts) THEN FreshReg ELSE NULL
      base == [NoOp EXCEPT !.op = "createSsl", !.root = root, !.key = key,
                           !.chain = chain, !.opts = opts]
  IN
  IF e # ErrNone
  THEN /\ nativeOk      \* the native builder is not reached: nothing to choose
       /\ last' = [base EXCEPT !.res = "throw", !.err = e]
       /\ UNCHANGED <<handleVars, nativeVars, regVars, inflight>>
  ELSE
    /\ AllocatesCallback(opts) => HasFreeReg
    /\ HasFreeNative /\ HasFreeHandle
    /\ LET called == [base EXCEPT !.nativeOk = nativeOk,
                                  !.builderCalls = 1,
                                  !.pairPassed = PassesKeyCertPair(key),
                                  !.regPassed = r,
                                  !.regCreated = r]
           n == FreshNative
       IN
       \* grpc_ssl_credentials_create
       /\ IF nativeOk
          THEN /\ nkind' = [nkind EXCEPT ![n] = "ssl"]
               /\ nref'  = [nref  EXCEPT ![n] = 1]
               /\ nreg'  = [nreg  EXCEPT ![n] = r]
          ELSE UNCHANGED <<nkind, nref, nreg>>
       /\ IF r # NULL
          THEN /\ rstate'  = [rstate  EXCEPT ![r] = "allocated"]
               /\ rnative' = [rnative EXCEPT ![r] = IF nativeOk THEN n ELSE NULL]
          ELSE UNCHANGED <<rstate, rnative>>
       /\ IF SslCredsIsNull(nativeOk)
          THEN /\ last' = [called EXCEPT !.res = "null"]
               /\ UNCHANGED <<hstate, wrapped>>
          ELSE /\ WrapStruct(IF nativeOk THEN n ELSE NULL)
               /\ last' = [called EXCEPT !.res = "handle", !.handle = FreshHandle]
       /\ UNCHANGED <<hreleases, releaseArgs, ninner, rreleases, chan, opened,
                      inflight>>

\* -------------------------------------------------------- createInsecure
CreateInsecure ==
  /\ HasFreeHandle
  /\ WrapStruct(NULL)
  /\ last' = [NoOp EXCEPT !.op = "createInsecure", !.res = "handle",
                          !.handle = FreshHandle]
  /\ UNCHANGED <<hreleases, releaseArgs, nativeVars, regVars, inflight>>

\* --------------------------------------------------------------- compose
\* self->wrapped_credentials == NULL
\* (variant: the NULL test is missing)
ComposeIsInsecureNever(w) == FALSE
ComposeIsInsecure(w) == w = NULL

\* creds == NULL after grpc_composite_channel_credentials_create
CompositeCredsIsNull(nativeOk) == ~nativeOk

\* the native object handed to WrapStruct by Compose
\* (variant: the receiver's own native object is wrapped again)
ComposeWrapsSelf(selfCreds, creds) == selfCreds
ComposeWraps(selfCreds, creds) == creds

\* self = NULL: this is not a ChannelCredentials object
Compose(self, callArg, nativeOk) ==
  LET base == [NoOp EXCEPT !.op = "compose", !.self = self,
                           !.callArg = callArg]
      e == IF self = NULL THEN ErrThis
           ELSE IF callArg # "CallCredentials" THEN ErrCallArg
           ELSE IF ComposeIsInsecure(wrapped[self]) THEN ErrInsecure
           ELSE ErrNone
  IN
  /\ self # NULL => hstate[self] = "live"
  /\ IF e # ErrNone
     THEN /\ nativeOk   \* the native constructor is not reached
          /\ last' = [base EXCEPT !.res = "throw", !.err = e]
          /\ UNCHANGED <<handleVars, nativeVars, regVars, inflight>>
     ELSE
       /\ HasFreeNative /\ HasFreeHandle
       /\ LET called == [base EXCEPT !.nativeOk = nativeOk,
                                     !.compositeCalls = 1,
                                     !.compositeChan = wrapped[self]]
              n == FreshNative
          IN
          \* grpc_composite_channel_credentials_create (it builds nothing
          \* from a NULL channel credential)
          /\ IF nativeOk /\ wrapped[self] # NULL
             THEN /\ nkind'  = [nkind  EXCEPT ![n] = "composite"]
                  /\ nref'   = [nref   EXCEPT ![n] = 1,
                                              ![wrapped[self]] = @ + 1]
                  /\ ninner' = [ninner EXCEPT ![n] = wrapped[self]]
             ELSE UNCHANGED <<nkind, nref, ninner>>
          /\ IF CompositeCredsIsNull(nativeOk /\ wrapped[self] # NULL)
             THEN /\ last' = [called EXCEPT !.res = "null"]
                  /\ UNCHANGED <<hstate, wrapped>>
             ELSE /\ WrapStruct(ComposeWraps(wrapped[self],
                       IF nativeOk /\ wrapped[self] # NULL THEN n ELSE NULL))
                  /\ last' = [called EXCEPT !.res = "handle",
                                            !.handle = FreshHandle]
          /\ UNCHANGED <<hreleases, releaseArgs, nreg, regVars, chan, opened,
                         inflight>>

\* ------------------------------------------------------------------- New
\* new ChannelCredentials(x) or ChannelCredentials(x) from script: x is
\* never an External there
NewFromScript ==
  /\ last' = [NoOp EXCEPT !.op = "new", !.res = "throw", !.err = ErrNew]
  /\ UNCHANGED <<handleVars, nativeVars, regVars, inflight>>

\* ------------------------------------------------------------ destructor
\* the object is collected: ~ChannelCredentials runs
Destroy(h) ==
  /\ hstate[h] = "live"
  /\ hstate' = [hstate EXCEPT ![h] = "released"]
  /\ hreleases' = [hreleases EXCEPT ![h] = @ + 1]
  /\ releaseArgs' = [releaseArgs EXCEPT ![DestructorReleaseArg(h)] = @ + 1]
  /\ Unref(DestructorReleaseArg(h))
  /\ last' = NoOp
  /\ UNCHANGED <<wrapped, nkind, ninner, nreg, rnative, chan, opened, inflight>>

\* ================================================== channels and handshake
\* a channel is created with the credential of a live handle and holds a
\* reference on the native object
ChannelCreate(h) ==
  /\ hstate[h] = "live" /\ wrapped[h] # NULL
  /\ opened < MaxChannels
  /\ opened' = opened + 1
  /\ chan' = [chan EXCEPT ![wrapped[h]] = @ + 1]
  /\ nref' = [nref EXCEPT ![wrapped[h]] = @ + 1]
  /\ last' = NoOp
  /\ UNCHANGED <<handleVars, nkind, ninner, nreg, regVars, inflight>>

\* the channel is destroyed; no handshake of it is running
ChannelClose(n) ==
  /\ chan[n] > 0
  /\ inflight.n # n
  /\ chan' = [chan EXCEPT ![n] = @ - 1]
  /\ Unref(n)
  /\ last' = NoOp
  /\ UNCHANGED <<handleVars, nkind, ninner, nreg, rnative, opened, inflight>>

\* what the process does when ToLocalChecked meets an empty MaybeLocal
Abort == 0 - 1

\* static int verify_peer_callback_wrapper(servername, cert, userdata):
\* the value returned for what the user's function did. A throwing
\* function leaves result empty and the exception in try_catch.
\* (variant: the result is inspected before HasCaught)
verify_peer_callback_wrapper_errfirst(servername, cert, outcome) ==
  LET result == IF outcome = "Throw" THEN "Empty" ELSE outcome
      hasCaught == outcome = "Throw"
  IN IF result = "Empty" THEN Abort
     ELSE IF result = "NativeError" THEN 1
     ELSE IF hasCaught THEN 2
     ELSE 0
verify_peer_callback_wrapper(servername, cert, outcome) ==
  LET argv == <<IF servername = "NULL" THEN "null" ELSE "string",
                IF cert = "NULL" THEN "null" ELSE "string">>
      result == IF outcome = "Throw" THEN "Empty" ELSE outcome
      hasCaught == outcome = "Throw"
  IN IF hasCaught THEN 2
     ELSE IF result = "Empty" THEN Abort
     ELSE IF result = "NativeError" THEN 1
     ELSE 0

\* Nan::TryCatch try_catch is in scope around Nan::Call and is not rethrown:
\* the exception of a throwing function ends there
ExceptionEscapes(outcome) ==
  LET tryCatchInScope == TRUE
      reThrown == FALSE
  IN outcome = "Throw" /\ (~tryCatchInScope \/ reThrown)

\* the TLS layer of a channel on n calls the verify callback of the ssl
\* credential underneath and blocks
VerifyBegin(n, servername, cert) ==
  /\ inflight = NoCall
  /\ chan[n] > 0
  /\ nreg[RootOf(n)] # NULL
  /\ inflight' = [n |-> n, reg |-> nreg[RootOf(n)], servername |-> servername,
                  cert |-> cert]
  /\ last' = NoOp
  /\ UNCHANGED <<handleVars, nativeVars, regVars>>

\* the user's function finishes and the wrapper returns
VerifyEnd(outcome) ==
  /\ inflight # NoCall
  /\ inflight' = NoCall
  /\ last' = [NoOp EXCEPT !.op = "verify", !.outcome = outcome,
                !.signal = verify_peer_callback_wrapper(inflight.servername,
                                                        inflight.cert, outcome),
                !.servername = inflight.servername, !.cert = inflight.cert,
                !.propagated = ExceptionEscapes(outcome)]
  /\ UNCHANGED <<handleVars, nativeVars, regVars>>

Next ==
  \/ \E a \in SslCalls, ok \in BOOLEAN :
       CreateSsl(a[1], a[2], a[3], a[4], ok)
  \/ CreateInsecure
  \/ \E c \in ComposeCalls, ok \in BOOLEAN : Compose(c[1], c[2], ok)
  \/ NewFromScript
  \/ \E h \in Handles : Destroy(h)
  \/ \E h \in Handles : ChannelCreate(h)
  \/ \E n \in Natives : ChannelClose(n)
  \/ \E n \in Natives : VerifyBegin(n, "text", "text")
  \/ \E o \in {"Undefined", "NativeError", "Throw"} : VerifyEnd(o)

Spec == Init /\ [][Next]_vars

\* createSsl on its own, over every shape of its arguments
SslNext ==
  \/ \E a \in AllSslCalls, ok \in BOOLEAN :
       CreateSsl(a[1], a[2], a[3], a[4], ok)
  \/ \E h \in Handles : Destroy(h)

SslSpec == Init /\ [][SslNext]_vars

\* the verification bridge, over every shape of its arguments and every
\* behaviour of the user's function
BridgeNext ==
  \/ \E ok \in BOOLEAN :
       CreateSsl("Buffer", "Absent", "Absent", "CheckFunction", ok)
  \/ \E self \in Handles, ok \in BOOLEAN : Compose(self, "CallCredentials", ok)
  \/ \E h \in Handles : Destroy(h)
  \/ \E h \in Handles : ChannelCreate(h)
  \/ \E n \in Natives : ChannelClose(n)
  \/ \E n \in Natives, sn, cert \in CStrings : VerifyBegin(n, sn, cert)
  \/ \E o \in Outcomes : VerifyEnd(o)

BridgeSpec == Init /\ [][BridgeNext]_vars

\* ================================================================ claims
Live(h)     == hstate[h] = "live"
Released(h) == hstate[h] = "released"
Created(h)  == hstate[h] # "unused"

\* the arguments of the last createSsl have the types the interface documents
LastArgsTyped  == last.root # "Other" /\ last.key # "Other" /\ last.chain # "Other"
LastOptsTyped  == last.opts \in {"Undefined", "NoCheck", "CheckFunction"}
\* exactly one of privateKey / certChain was a Buffer
LastExactlyOne == (last.key = "Buffer") # (last.chain = "Buffer")

\* C1: a createSsl call with exactly one of privateKey and certChain
\* supplied, whatever rootCerts and verifyOptions are, throws (the
\* "provided or omitted together" Error whenever the three buffers are
\* well typed), does not call the native builder, allocates no callback
\* registration, produces no handle, and leaves handles, native objects and
\* registrations as they were.
C1_MismatchRejected ==
  [][ (last'.op = "createSsl" /\ LastExactlyOne')
      => /\ last'.res = "throw"
         /\ LastArgsTyped' => (last'.err = ErrPair /\ ErrorClass(last'.err) = "Error")
         /\ last'.builderCalls = 0
         /\ last'.regCreated = NULL
         /\ last'.handle = NULL
         /\ UNCHANGED <<handleVars, nativeVars, regVars>> ]_vars

C1_Witness ==
  /\ last.op = "createSsl" /\ last.key = "Absent" /\ last.chain = "Buffer"
  /\ last.opts = "CheckFunction" /\ last.root = "Buffer"
  /\ last.err = ErrPair
  /\ \E h \in Handles : Live(h) /\ wrapped[h] # NULL
  /\ \E r \in Regs : rstate[r] = "free"

\* C2: createInsecure returns a handle (wrapping the NULL sentinel), and
\* every compose on a handle wrapping NULL throws ("Cannot compose insecure
\* credential" whenever the argument is a CallCredentials), without calling
\* the native composite constructor and without creating a handle.
C2_InsecureNeverComposes ==
  [][ /\ last'.op = "createInsecure"
         => /\ last'.res = "handle"
            /\ hstate[last'.handle] = "unused"
            /\ hstate'[last'.handle] = "live"
            /\ wrapped'[last'.handle] = NULL
      /\ (last'.op = "compose" /\ last'.self # NULL /\ wrapped[last'.self] = NULL)
         => /\ last'.res = "throw"
            /\ last'.callArg = "CallCredentials" => last'.err = ErrInsecure
            /\ last'.compositeCalls = 0
            /\ last'.handle = NULL
            /\ UNCHANGED <<handleVars, nativeVars, regVars>> ]_vars

C2_Witness ==
  /\ last.op = "compose" /\ last.err = ErrInsecure
  /\ wrapped[last.self] = NULL /\ Live(last.self)
  /\ \E h \in Handles : Released(h)
  /\ \E h \in Handles : Live(h) /\ wrapped[h] # NULL

\* C3: a compose that returns a handle returns a new one, distinct from the
\* receiver, wrapping a newly built composite native object that holds the
\* receiver's native object; every other handle, the receiver included, keeps
\* its state and its native reference, and the receiver's native object stays
\* alive, so that it can be composed again.
C3_ComposeFresh ==
  [][ (last'.op = "compose" /\ last'.res = "handle")
      => LET h == last'.handle
             self == last'.self
         IN /\ h # self
            /\ hstate[h] = "unused" /\ hstate'[h] = "live"
            /\ wrapped'[h] # NULL /\ wrapped'[h] # wrapped[self]
            /\ nkind[wrapped'[h]] = "free"
            /\ nkind'[wrapped'[h]] = "composite"
            /\ ninner'[wrapped'[h]] = wrapped[self]
            /\ nref'[wrapped'[h]] = 1
            /\ \A g \in Handles \ {h} :
                 hstate'[g] = hstate[g] /\ wrapped'[g] = wrapped[g]
            /\ hstate'[self] = "live" /\ wrapped'[self] # NULL
            /\ nref'[wrapped[self]] > 0
            /\ UNCHANGED <<hreleases, releaseArgs, regVars>> ]_vars

\* the same handle has been composed twice, and so has a composite
C3_Witness ==
  /\ last.op = "compose" /\ last.res = "handle"
  /\ \E g \in Handles \ {last.handle, last.self} :
       /\ Live(g) /\ Live(last.self) /\ Live(last.handle)
       /\ wrapped[g] # NULL
       /\ nkind[wrapped[g]] = "composite"
       /\ ninner[wrapped[g]] = wrapped[last.self]
       /\ ninner[wrapped[last.handle]] = wrapped[last.self]

\* C4: the value the bridge returns is one of 0, 1, 2 and depends only on
\* what the user's function did: 2 when it threw, 1 when it returned a
\* native Error, 0 when it returned anything else; whether servername and
\* cert were NULL makes no difference, and the exception never leaves the
\* bridge.
C4_Signal ==
  last.op = "verify"
  => /\ last.signal \in {0, 1, 2}
     /\ (last.signal = 2) = (last.outcome = "Throw")
     /\ (last.signal = 1) = (last.outcome = "NativeError")
     /\ (last.signal = 0) = (last.outcome \notin {"Throw", "NativeError"})
     /\ ~last.propagated

C4_Witness ==
  /\ last.op = "verify" /\ last.outcome = "Throw" /\ last.signal = 2
  /\ last.servername = "NULL" /\ last.cert = "text"

\* C5: the native reference of a handle is passed to the release routine
\* never while the handle is live and exactly once when it has been
\* destroyed; a released handle stays released and a created one never
\* becomes unused again; no two handles wrap the same native object.
C5_ReleasedOnce ==
  /\ [](\A h \in Handles :
          /\ hstate[h] = "unused" => hreleases[h] = 0
          /\ Live(h) => hreleases[h] = 0
          /\ Released(h) => hreleases[h] = 1
          /\ (Created(h) /\ wrapped[h] # NULL)
             => /\ releaseArgs[wrapped[h]] = (IF Released(h) THEN 1 ELSE 0)
                /\ Live(h) => nref[wrapped[h]] > 0
                /\ \A g \in Handles \ {h} : Created(g) => wrapped[g] # wrapped[h])
  /\ [][\A h \in Handles :
          /\ Released(h) => hstate'[h] = "released"
          /\ Live(h) => hstate'[h] \in {"live", "released"}
          /\ Created(h) => wrapped'[h] = wrapped[h]]_vars

C5_Witness ==
  \E h, g \in Handles :
    /\ Released(h) /\ wrapped[h] # NULL /\ releaseArgs[wrapped[h]] = 1
    /\ nkind[wrapped[h]] = "ssl"
    /\ Released(g) /\ wrapped[g] # NULL /\ nkind[wrapped[g]] = "composite"
    /\ ninner[wrapped[g]] = wrapped[h]

\* C6: a registration installed on a native credential is allocated, its
\* release routine not yet run, for as long as that native credential exists
\* (also after the handle that wrapped it has been destroyed), and released,
\* its release routine run exactly once, from the moment the native
\* credential is destroyed; no verification call is in flight on a released
\* registration.
C6_RegistrationLifetime ==
  /\ \A r \in Regs :
       /\ rreleases[r] <= 1
       /\ rnative[r] # NULL
          => /\ nkind[rnative[r]] = "ssl" /\ nreg[rnative[r]] = r
             /\ nref[rnative[r]] > 0 => (rstate[r] = "allocated" /\ rreleases[r] = 0)
             /\ nref[rnative[r]] = 0 => (rstate[r] = "released" /\ rreleases[r] = 1)
  /\ inflight # NoCall
     => /\ rstate[inflight.reg] = "allocated"
        /\ nref[rnative[inflight.reg]] > 0

\* the registration was released after the handle, a composite and a
\* channel had all held the native credential
C6_Witness ==
  \E r \in Regs :
    /\ rstate[r] = "released" /\ rreleases[r] = 1
    /\ \E h \in Handles : Released(h) /\ wrapped[h] = rnative[r]
    /\ \E c \in Natives : nkind[c] = "composite" /\ ninner[c] = rnative[r]
    /\ opened > 0

\* C7: when the native builder or the native composite constructor returns
\* NULL, createSsl / compose return null: no handle is created and every
\* existing handle and native object is as it was.
C7_NativeFailureIsNull ==
  [][ (last'.op \in {"createSsl", "compose"}
       /\ last'.builderCalls + last'.compositeCalls = 1
       /\ ~last'.nativeOk)
      => /\ last'.res = "null"
         /\ last'.handle = NULL
         /\ UNCHANGED <<handleVars, nativeVars>> ]_vars

C7_Witness ==
  /\ last.op = "compose" /\ last.res = "null" /\ ~last.nativeOk
  /\ Live(last.self) /\ nref[wrapped[last.self]] = 1
  /\ \E h \in Handles \ {last.self} : Live(h)

\* C8: a createSsl call with well-typed arguments and privateKey and
\* certChain both supplied or both omitted calls the native builder exactly
\* once, with the key/cert pair exactly when both were supplied and with a
\* newly allocated verification registration exactly when verifyOptions
\* carries a function.
C8_ProceedsToNative ==
  (last.op = "createSsl" /\ LastArgsTyped /\ LastOptsTyped /\ ~LastExactlyOne)
  => /\ last.res \in {"handle", "null"}
     /\ last.builderCalls = 1
     /\ last.pairPassed = (last.key = "Buffer")
     /\ (last.regPassed # NULL) = (last.opts = "CheckFunction")
     /\ last.regPassed = last.regCreated
     /\ last.regPassed # NULL => rstate[last.regPassed] = "allocated"
     /\ last.res = "handle" => (Live(last.handle) /\ wrapped[last.handle] # NULL
                                /\ nkind[wrapped[last.handle]] = "ssl"
                                /\ nreg[wrapped[last.handle]] = last.regPassed)

C8_Witness ==
  /\ last.op = "createSsl" /\ last.key = "Absent" /\ last.chain = "Absent"
  /\ last.opts = "CheckFunction" /\ last.res = "handle"
  /\ ~last.pairPassed /\ last.regPassed # NULL

\* C9 as stated: the NULL sentinel of an insecure handle is never the
\* argument of the native release routine.
C9_NullNeverReleased == releaseArgs[NULL] = 0

\* C9 amended: an insecure handle wraps NULL for its whole lifetime, and the
\* destructor calls the release routine with the wrapped reference of the
\* handle it destroys whatever that is: the calls with NULL are exactly the
\* destroyed insecure handles, and such a call touches no native object and
\* no registration.
C9_ReleaseArgIsWrapped ==
  /\ [](releaseArgs[NULL] =
          Cardinality({h \in Handles : Released(h) /\ wrapped[h] = NULL}))
  /\ [][\A h \in Handles :
          /\ Created(h) => wrapped'[h] = wrapped[h]
          /\ (Live(h) /\ hstate'[h] = "released")
             => /\ releaseArgs'[wrapped[h]] = releaseArgs[wrapped[h]] + 1
                /\ wrapped[h] = NULL => UNCHANGED <<nativeVars, regVars>>]_vars

C9_Witness ==
  /\ \E h \in Handles : Released(h) /\ wrapped[h] = NULL
  /\ \E h \in Handles : Released(h) /\ wrapped[h] # NULL
  /\ releaseArgs[NULL] = 1

\* C10: every registration createSsl has allocated is attached to a native
\* credential that still exists, or has been released exactly once.
C10_NoOrphanRegistration ==
  \A r \in Regs :
    rstate[r] # "free"
    => \/ rstate[r] = "allocated" /\ rnative[r] # NULL /\ nref[rnative[r]] > 0
       \/ rstate[r] = "released" /\ rreleases[r] = 1
====
